---- MODULE Spec2Model ----
(***************************************************************************)
(* A model of keep/providers/base/base_provider.py: BaseProvider's         *)
(* enrichment write path (notify, query, _enrich_alert), the fingerprint   *)
(* engine (get_alert_fingerprint), the grouping and enrichment read path   *)
(* (get_alerts_by_fingerprint) and the push path (_push_alert).            *)
(*                                                                         *)
(* Python strings are sequences of one-character strings, so that          *)
(* startswith, replace, split and concatenation are computed as Python     *)
(* computes them (a string the code only passes on is written as one       *)
(* chunk).  Python values are records [t, s, items, elems]:                *)
(*   t      the type: "none", "str", "int", "bool", "dict", "list",        *)
(*          "tuple", "dto"                                                 *)
(*   s      the characters of a str, the str() form of an int or bool      *)
(*   items  the <<key, value>> pairs of a dict (or the attributes of a     *)
(*          dto) in insertion order, keys unique                           *)
(*   elems  the elements of a list or tuple                                *)
(***************************************************************************)
EXTENDS Integers, Sequences, FiniteSets, TLC

VARIABLES
    step,       \* the workflow step a notify / query call runs in: the kwargs'
                \* enrich_alert list, what _notify / _query returns, the execution
                \* context (foreach_context, event_context), whether the store answers
    store,      \* the enrichment store: the enrich_alert writes, in order
    ecall,      \* the outcome of the last notify call and of the last query call
    fetched,    \* what the provider's _get_alerts returns
    records,    \* the rows of the enrichment store, in the order it returns them
    tenant_id,  \* the tenant get_alerts_by_fingerprint is called for
    acall,      \* the last get_alerts_by_fingerprint call and its outcome
    fargs,      \* two alerts and a field list for get_alert_fingerprint
    fcall,      \* the fingerprints get_alert_fingerprint returned for them
    payload,    \* the alert handed to _push_alert
    endpoint,   \* how the delivery endpoint answers a POST
    pcall,      \* the last _push_alert call and its outcome
    posts       \* the HTTP POSTs made to the delivery endpoint, in order

vars == <<step, store, ecall, fetched, records, tenant_id, acall, fargs, fcall, payload, endpoint, pcall, posts>>

---------------------------------------------------------------------------
(* Python values *)

PyNone == [t |-> "none", s |-> <<>>, items |-> <<>>, elems |-> <<>>]

PyStr(cs) == [t |-> "str", s |-> cs, items |-> <<>>, elems |-> <<>>]

PyInt(digits) == [t |-> "int", s |-> digits, items |-> <<>>, elems |-> <<>>]

PyBool(b) ==
    [t |-> "bool", s |-> IF b THEN <<"T", "r", "u", "e">> ELSE <<"F", "a", "l", "s", "e">>,
     items |-> <<>>, elems |-> <<>>]

PyDict(kvs) == [t |-> "dict", s |-> <<>>, items |-> kvs, elems |-> <<>>]

PyList(es) == [t |-> "list", s |-> <<>>, items |-> <<>>, elems |-> es]

PyTuple(es) == [t |-> "tuple", s |-> <<>>, items |-> <<>>, elems |-> es]

\* an object with attributes (an AlertDto used as event context)
PyDto(kvs) == [t |-> "dto", s |-> <<>>, items |-> kvs, elems |-> <<>>]

\* bool(v): None, "", 0, False and empty containers are falsy
Truthy(v) ==
    CASE v.t = "none" -> FALSE
      [] v.t = "str" -> v.s # <<>>
      [] v.t = "int" -> v.s # <<"0">>
      [] v.t = "bool" -> v.s = <<"T", "r", "u", "e">>
      [] v.t = "dict" -> v.items # <<>>
      [] v.t \in {"list", "tuple"} -> v.elems # <<>>
      [] OTHER -> TRUE

\* key in d, for the pairs of a dict
HasKey(kvs, k) == \E i \in 1..Len(kvs) : kvs[i][1] = k

\* d[key], for a key that is present
Lookup(kvs, k) == kvs[CHOOSE i \in 1..Len(kvs) : kvs[i][1] = k][2]

\* d.get(key): None when the key is missing
DictGet(kvs, k) == IF HasKey(kvs, k) THEN Lookup(kvs, k) ELSE PyNone

\* a == b on Python values: dicts compare as mappings, whatever the insertion order
RECURSIVE PyEq(_, _)
PyEq(a, b) ==
    IF a.t # b.t THEN FALSE
    ELSE IF a.t \in {"dict", "dto"} THEN
        /\ Len(a.items) = Len(b.items)
        /\ \A i \in 1..Len(a.items) :
              /\ HasKey(b.items, a.items[i][1])
              /\ PyEq(a.items[i][2], Lookup(b.items, a.items[i][1]))
    ELSE IF a.t \in {"list", "tuple"} THEN
        /\ Len(a.elems) = Len(b.elems)
        /\ \A i \in 1..Len(a.elems) : PyEq(a.elems[i], b.elems[i])
    ELSE a.s = b.s

---------------------------------------------------------------------------
(* Python string operations *)

\* s.startswith(p)
StartsWith(s, p) == Len(s) >= Len(p) /\ SubSeq(s, 1, Len(p)) = p

\* s.replace(old, new): every non-overlapping occurrence, leftmost first
RECURSIVE Replace(_, _, _)
Replace(s, old, new) ==
    IF Len(s) < Len(old) THEN s
    ELSE IF StartsWith(s, old)
         THEN new \o Replace(SubSeq(s, Len(old) + 1, Len(s)), old, new)
         ELSE <<s[1]>> \o Replace(Tail(s), old, new)

\* s.split(sep) for a one-character separator: "a..b" gives ["a", "", "b"], "" gives [""]
RECURSIVE SplitFrom(_, _, _)
SplitFrom(s, sep, cur) ==
    IF s = <<>> THEN <<cur>>
    ELSE IF s[1] = sep THEN <<cur>> \o SplitFrom(Tail(s), sep, <<>>)
    ELSE SplitFrom(Tail(s), sep, Append(cur, s[1]))

Split(s, sep) == SplitFrom(s, sep, <<>>)

---------------------------------------------------------------------------
(* The enrichment write path: notify, query, _enrich_alert *)

\* the string literals of the source
cFingerprint == <<"f", "i", "n", "g", "e", "r", "p", "r", "i", "n", "t">>

cValue == <<"v", "a", "l", "u", "e">>

cResults == <<"r", "e", "s", "u", "l", "t", "s">>

cResultsDot == cResults \o <<".">>

\* context_manager.tenant_id
TenantId == "tenant"

\* `key in container`: a dict looks the key up, a list or tuple compares its elements,
\* a str searches a substring; None, int and bool raise TypeError
Contains(container, key) ==
    CASE container.t = "dict" -> IF HasKey(container.items, key) THEN "yes" ELSE "no"
      [] container.t \in {"list", "tuple"} ->
            IF \E i \in 1..Len(container.elems) : PyEq(container.elems[i], PyStr(key))
            THEN "yes" ELSE "no"
      [] container.t = "str" ->
            IF \E i \in 1..(Len(container.s) + 1) :
                   StartsWith(SubSeq(container.s, i, Len(container.s)), key)
            THEN "yes" ELSE "no"
      [] OTHER -> "TypeError"

\* r[part] for a str part: only a dict can answer, with KeyError on a missing key
GetItem(r, part) ==
    IF r.t = "dict"
    THEN IF HasKey(r.items, part)
         THEN [raised |-> "none", v |-> Lookup(r.items, part)]
         ELSE [raised |-> "KeyError", v |-> PyNone]
    ELSE [raised |-> "TypeError", v |-> PyNone]

\* obj.get("fingerprint"): a dict answers (None when missing), anything else has no .get
GetMethod(obj, key) ==
    IF obj.t = "dict"
    THEN [raised |-> "none", v |-> DictGet(obj.items, key)]
    ELSE [raised |-> "AttributeError", v |-> PyNone]

\* obj.fingerprint on an object
GetAttr(obj, name) ==
    IF obj.t = "dto" /\ HasKey(obj.items, name)
    THEN [raised |-> "none", v |-> Lookup(obj.items, name)]
    ELSE [raised |-> "AttributeError", v |-> PyNone]

\* foreach_context.get("value", {})
ForeachValue(foreach_context) ==
    IF HasKey(foreach_context.items, cValue)
    THEN Lookup(foreach_context.items, cValue)
    ELSE PyDict(<<>>)

\* lines 136-156: where the fingerprint comes from
ExtractFingerprint(results, foreach_context, event_context) ==
    LET inResults == Contains(results, cFingerprint)
        item == ForeachValue(foreach_context)
        first == IF item.t = "tuple" THEN item.elems[1] ELSE item
    IN  IF inResults = "TypeError" THEN [raised |-> "TypeError", v |-> PyNone]
        ELSE IF inResults = "yes" THEN GetItem(results, cFingerprint)
        ELSE IF Truthy(item) THEN GetMethod(first, cFingerprint)
        ELSE IF Truthy(event_context)
             THEN IF event_context.t = "dict"
                  THEN GetMethod(event_context, cFingerprint)
                  ELSE GetAttr(event_context, cFingerprint)
        ELSE [raised |-> "none", v |-> PyNone]

\* lines 174-175: for part in parts: r = r[part]
RECURSIVE Walk(_, _)
Walk(r, parts) ==
    IF parts = <<>> THEN [raised |-> "none", v |-> r]
    ELSE LET got == GetItem(r, Head(parts))
         IN  IF got.raised # "none" THEN got ELSE Walk(got.v, Tail(parts))

\* line 171-172: the path the code walks for an instruction value
PathOf(value) == Split(Replace(value, cResultsDot, <<>>), ".")

\* m[k] = v on the _enrichments mapping (a function from keys to Python values)
Bind(m, k, v) == [x \in (DOMAIN m) \cup {k} |-> IF x = k THEN v ELSE m[x]]

\* lines 169-184: one instruction, inside its try / except Exception: continue
EnrichOne(m, enrichment, results) ==
    IF enrichment.value.t # "str" THEN m    \* .startswith raises AttributeError
    ELSE IF StartsWith(enrichment.value.s, cResultsDot)
         THEN LET w == Walk(results, PathOf(enrichment.value.s))
              IN  IF w.raised = "none" THEN Bind(m, enrichment.key, w.v) ELSE m
         ELSE Bind(m, enrichment.key, enrichment.value)

\* lines 166-184: the loop over the instructions, in order
RECURSIVE EnrichAll(_, _, _)
EnrichAll(m, enrichments, results) ==
    IF enrichments = <<>> THEN m
    ELSE EnrichAll(EnrichOne(m, Head(enrichments), results), Tail(enrichments), results)

NoEnrichments == [x \in {} |-> PyNone]

\* _enrich_alert: the fingerprint, then the mapping, then the store write.
\* storeOk is whether the enrich_alert call of the store succeeds.
_enrich_alert(enrichments, results, foreach_context, event_context, storeOk) ==
    LET fp == ExtractFingerprint(results, foreach_context, event_context)
        m == EnrichAll(NoEnrichments, enrichments, results)
    IN  IF fp.raised # "none"
        THEN [raised |-> fp.raised, wrote |-> FALSE, fingerprint |-> PyNone,
              enrichments |-> NoEnrichments]
        ELSE IF ~Truthy(fp.v)
        THEN [raised |-> "NoFingerprint", wrote |-> FALSE, fingerprint |-> PyNone,
              enrichments |-> NoEnrichments]
        ELSE IF ~storeOk
        THEN [raised |-> "StoreError", wrote |-> FALSE, fingerprint |-> fp.v,
              enrichments |-> m]
        ELSE [raised |-> "none", wrote |-> TRUE, fingerprint |-> fp.v, enrichments |-> m]

NotAttempted ==
    [raised |-> "none", wrote |-> FALSE, fingerprint |-> PyNone, enrichments |-> NoEnrichments]

\* what a call leaves behind: whether _enrich_alert ran, its outcome, and the value
\* returned (returned is FALSE when the call raised)
Outcome(attempted, e, ret) ==
    [attempted |-> attempted, raised |-> e.raised, wrote |-> e.wrote,
     fingerprint |-> e.fingerprint, enrichments |-> e.enrichments,
     returned |-> e.raised = "none", ret |-> IF e.raised = "none" THEN ret ELSE PyNone]

\* notify, lines 112-128, for the value _notify returned
notify(enrich_alert, results, foreach_context, event_context, storeOk) ==
    IF enrich_alert = <<>> \/ results.t = "none"
    THEN Outcome(FALSE, NotAttempted, IF Truthy(results) THEN results ELSE PyNone)
    ELSE Outcome(TRUE,
                 _enrich_alert(enrich_alert, results, foreach_context, event_context, storeOk),
                 results)

\* query, lines 217-231, for the value _query returned
query(enrich_alert, results, foreach_context, event_context, storeOk) ==
    IF enrich_alert # <<>>
    THEN Outcome(TRUE,
                 _enrich_alert(enrich_alert, results, foreach_context, event_context, storeOk),
                 results)
    ELSE Outcome(FALSE, NotAttempted, results)

---------------------------------------------------------------------------
(* Inputs of the enrichment write path *)

\* the longest instruction list of a call when the instructions are enumerated
MaxInstructions == 2

\* the calls stop once the store holds this many writes
MaxWrites == 1

cA == <<"a">>

cB == <<"b">>

cName == <<"n", "a", "m", "e">>

\* the fingerprints the three sources carry
fpResults == PyStr(<<"f", "r">>)

fpForeach == PyStr(<<"f", "f">>)

fpEvent == PyStr(<<"f", "e">>)

\* {"b": 1, "results": {"b": 2}}
InnerA == PyDict(<< <<cB, PyInt(<<"1">>)>>, <<cResults, PyDict(<< <<cB, PyInt(<<"2">>)>> >>)>> >>)

\* {"fingerprint": "fr", "a": {"b": 1, "results": {"b": 2}}}
rWithFp == PyDict(<< <<cFingerprint, fpResults>>, <<cA, InnerA>> >>)

\* {"a": {"b": 1, "results": {"b": 2}}}
rNoFp == PyDict(<< <<cA, InnerA>> >>)

\* {"a": {"b": 1}}
rFlat == PyDict(<< <<cA, PyDict(<< <<cB, PyInt(<<"1">>)>> >>)>> >>)

\* {"fingerprint": None, "a": "s"}
rNullFp == PyDict(<< <<cFingerprint, PyNone>>, <<cA, PyStr(<<"s">>)>> >>)

\* what _notify / _query may return
ResultsPool == {PyNone, PyDict(<<>>), PyList(<<>>), rWithFp, rNoFp, rFlat, rNullFp}

\* context_manager.foreach_context: no loop, a loop item with and without a
\* fingerprint, a zipped loop item
ForeachPool ==
    { PyDict(<<>>),
      PyDict(<< <<cValue, PyDict(<< <<cFingerprint, fpForeach>> >>)>> >>),
      PyDict(<< <<cValue, PyDict(<< <<cName, PyStr(<<"n">>)>> >>)>> >>),
      PyDict(<< <<cValue, PyTuple(<< PyDict(<< <<cFingerprint, fpForeach>> >>),
                                     PyDict(<< <<cName, PyStr(<<"n">>)>> >>) >>)>> >>) }

\* context_manager.event_context: none, a dict with and without a fingerprint, an
\* AlertDto with a fingerprint and with fingerprint None
EventPool ==
    { PyNone,
      PyDict(<< <<cFingerprint, fpEvent>> >>),
      PyDict(<< <<cName, PyStr(<<"n">>)>> >>),
      PyDto(<< <<cName, PyStr(<<"n">>)>>, <<cFingerprint, fpEvent>> >>),
      PyDto(<< <<cName, PyStr(<<"n">>)>>, <<cFingerprint, PyNone>> >>) }

\* the value strings of the instructions: a constant, paths that resolve, a path
\* through a key named "results", a missing key, a step into an int; and a value
\* that is no string
ValuePool ==
    { PyStr(<<"x">>),
      PyStr(cResultsDot \o <<"a", ".", "b">>),
      PyStr(cResultsDot \o <<"a", ".">> \o cResultsDot \o <<"b">>),
      PyStr(cResultsDot \o <<"c">>),
      PyStr(cResultsDot \o <<"a", ".", "b", ".", "c">>),
      PyNone }

InstructionPool == [key : {"k1", "k2"}, value : ValuePool]

RECURSIVE SeqsUpTo(_, _)
SeqsUpTo(S, n) ==
    IF n = 0 THEN {<<>>}
    ELSE LET shorter == SeqsUpTo(S, n - 1)
         IN  shorter \cup {Append(q, x) : q \in {r \in shorter : Len(r) = n - 1}, x \in S}

---------------------------------------------------------------------------
(* The enrichment write path as a state machine.  A behaviour starts in one       *)
(* workflow step; notify and query run in it until the store holds MaxWrites      *)
(* writes.                                                                        *)

Step(enrich_alert, results, foreach_context, event_context, storeOk) ==
    [enrich_alert |-> enrich_alert, results |-> results,
     foreach_context |-> foreach_context, event_context |-> event_context,
     storeOk |-> storeOk]

NoStep == Step(<<>>, PyNone, PyDict(<<>>), PyNone, TRUE)

\* ecall keeps, for notify and for query, whether it was called and what came of it
Called(out) == [called |-> TRUE, out |-> out]

NoCall == [called |-> FALSE, out |-> Outcome(FALSE, NotAttempted, PyNone)]

Ops == {"notify", "query"}

\* enrich_alert(tenant_id, fingerprint, _enrichments) of the store, line 187
StoreAfter(out) ==
    IF out.wrote
    THEN Append(store, [tenant_id |-> TenantId, fingerprint |-> out.fingerprint,
                        enrichments |-> out.enrichments])
    ELSE store

Notify ==
    LET out == notify(step.enrich_alert, step.results, step.foreach_context,
                      step.event_context, step.storeOk)
    IN  /\ Len(store) < MaxWrites
        /\ ecall' = [ecall EXCEPT !["notify"] = Called(out)]
        /\ store' = StoreAfter(out)
        /\ UNCHANGED <<step, fetched, records, tenant_id, acall, fargs, fcall, payload, endpoint,
                       pcall, posts>>

Query ==
    LET out == query(step.enrich_alert, step.results, step.foreach_context,
                     step.event_context, step.storeOk)
    IN  /\ Len(store) < MaxWrites
        /\ ecall' = [ecall EXCEPT !["query"] = Called(out)]
        /\ store' = StoreAfter(out)
        /\ UNCHANGED <<step, fetched, records, tenant_id, acall, fargs, fcall, payload, endpoint,
                       pcall, posts>>

\* every execution context, with at most one instruction
StepsInContext ==
    {Step(ins, r, fc, ec, ok) :
        ins \in SeqsUpTo(InstructionPool, 1), r \in ResultsPool, fc \in ForeachPool,
        ec \in EventPool, ok \in BOOLEAN}

\* every instruction list, in an event context
StepsOfInstructions ==
    {Step(ins, r, PyDict(<<>>), PyDict(<< <<cFingerprint, fpEvent>> >>), TRUE) :
        ins \in SeqsUpTo(InstructionPool, MaxInstructions), r \in {rWithFp, rNoFp, rFlat}}

---------------------------------------------------------------------------
(* The read path: get_alerts, get_alerts_by_fingerprint *)

\* the code points of the characters the fingerprints are written with
Ord(c) == CASE c = "1" -> 49 [] c = "2" -> 50 [] c = "f" -> 102 [] OTHER -> 0

\* a < b on Python strings: by code point, a proper prefix first
RECURSIVE StrLess(_, _)
StrLess(a, b) ==
    IF b = <<>> THEN FALSE
    ELSE IF a = <<>> THEN TRUE
    ELSE IF Ord(a[1]) # Ord(b[1]) THEN Ord(a[1]) < Ord(b[1])
    ELSE StrLess(Tail(a), Tail(b))

\* self.provider_id
ProviderId == "provider"

\* get_alerts, lines 312-321: each alert is stamped with the provider id
get_alerts(alerts) ==
    [i \in 1..Len(alerts) |-> [alerts[i] EXCEPT !.providerId = ProviderId]]

\* sorted(alerts, key=get_attr) compares the keys with <, which raises TypeError as
\* soon as a None takes part; one alert alone is never compared
SortRaises(alerts) ==
    Len(alerts) >= 2 /\ \E i \in 1..Len(alerts) : alerts[i].fingerprint.t = "none"

\* the place of x in a list sorted so far: after every element that is not greater
RECURSIVE InsertByFingerprint(_, _)
InsertByFingerprint(sortedSoFar, x) ==
    IF sortedSoFar = <<>> THEN <<x>>
    ELSE IF StrLess(x.fingerprint.s, Head(sortedSoFar).fingerprint.s)
         THEN <<x>> \o sortedSoFar
         ELSE <<Head(sortedSoFar)>> \o InsertByFingerprint(Tail(sortedSoFar), x)

\* a grouping that leaves the sort out
LeftUnsorted(alerts) == alerts

\* sorted(alerts, key=attrgetter("fingerprint")), lines 341-344: a stable sort
RECURSIVE SortedByFingerprint(_)
SortedByFingerprint(alerts) ==
    IF alerts = <<>> THEN <<>>
    ELSE InsertByFingerprint(SortedByFingerprint(SubSeq(alerts, 1, Len(alerts) - 1)),
                             alerts[Len(alerts)])

\* itertools.groupby(..., get_attr), lines 340-346: the runs of equal fingerprint
RECURSIVE GroupBy(_)
GroupBy(alerts) ==
    IF alerts = <<>> THEN <<>>
    ELSE LET rest == GroupBy(Tail(alerts))
         IN  IF rest # <<>> /\ rest[1][1] = Head(alerts).fingerprint
             THEN <<<<rest[1][1], <<Head(alerts)>> \o rest[1][2]>>>> \o Tail(rest)
             ELSE <<<<Head(alerts).fingerprint, <<Head(alerts)>>>>>> \o rest

\* d[k] = v on a dict kept as <<key, value>> pairs: a key already there keeps its place
DictSet(kvs, k, v) ==
    IF HasKey(kvs, k)
    THEN [i \in 1..Len(kvs) |-> IF kvs[i][1] = k THEN <<k, v>> ELSE kvs[i]]
    ELSE Append(kvs, <<k, v>>)

\* the dict comprehension of lines 338-347 over the runs
RECURSIVE DictOfRuns(_, _)
DictOfRuns(d, runs) ==
    IF runs = <<>> THEN d
    ELSE DictOfRuns(DictSet(d, Head(runs)[1], Head(runs)[2]), Tail(runs))

\* lines 336-347
GroupedAlerts(alerts) == DictOfRuns(<<>>, GroupBy(SortedByFingerprint(alerts)))

\* the keys of a dict, in order
Keys(kvs) == [i \in 1..Len(kvs) |-> kvs[i][1]]

\* get_enrichments(tenant_id, fingerprints) of the store: the rows of the requested
\* fingerprints, in the store's order (a row may be null)
get_enrichments(rows, fingerprints) ==
    SelectSeq(rows, LAMBDA r : ~r.present \/ r.alert_fingerprint \in fingerprints)

\* setattr(alert, name, value)
SetAttr(alert, name, value) ==
    [x \in (DOMAIN alert) \cup {name} |-> IF x = name THEN value ELSE alert[x]]

\* parse_and_enrich_deleted_and_assignees(alert, enrichments): the alert is deleted
\* when its lastReceived is among "deletedAt", and is assigned as "assignees" says
\* for its lastReceived
parse_and_enrich_deleted_and_assignees(alert, enrichments) ==
    LET a1 == IF "deletedAt" \in DOMAIN enrichments
                   /\ \E i \in 1..Len(enrichments["deletedAt"]) :
                          enrichments["deletedAt"][i] = alert.lastReceived
              THEN SetAttr(alert, "deleted", TRUE)
              ELSE alert
    IN  IF "assignees" \in DOMAIN enrichments
            /\ alert.lastReceived \in DOMAIN enrichments["assignees"]
        THEN SetAttr(a1, "assignee", enrichments["assignees"][alert.lastReceived])
        ELSE a1

\* lines 364-370: every key of the record is set on the alert
RECURSIVE SetAll(_, _, _)
SetAll(alert, enrichments, keys) ==
    IF keys = {} THEN alert
    ELSE LET k == CHOOSE x \in keys : TRUE
         IN  SetAll(SetAttr(alert, k, enrichments[k]), enrichments, keys \ {k})

\* lines 360-370 for one alert of the group
EnrichAlert(alert, enrichments) ==
    SetAll(parse_and_enrich_deleted_and_assignees(alert, enrichments), enrichments,
           DOMAIN enrichments)

\* lines 356-370 for one record: None is skipped; a record of a fingerprint that has
\* no group finds None to iterate and raises TypeError
Overlay(grouped, record) ==
    IF ~record.present THEN [raised |-> "none", grouped |-> grouped]
    ELSE IF ~HasKey(grouped, record.alert_fingerprint)
    THEN [raised |-> "TypeError", grouped |-> grouped]
    ELSE LET group == Lookup(grouped, record.alert_fingerprint)
         IN  [raised |-> "none",
              grouped |-> DictSet(grouped, record.alert_fingerprint,
                                  [i \in 1..Len(group) |->
                                       EnrichAlert(group[i], record.enrichments)])]

\* an overlay that takes the records last to first
RECURSIVE OverlayBackwards(_, _)
OverlayBackwards(grouped, pulled) ==
    IF pulled = <<>> THEN [raised |-> "none", grouped |-> grouped]
    ELSE LET one == Overlay(grouped, pulled[Len(pulled)])
         IN  IF one.raised # "none" THEN one
             ELSE OverlayBackwards(one.grouped, SubSeq(pulled, 1, Len(pulled) - 1))

\* lines 355-370: the records in the order the store returned them
RECURSIVE OverlayAll(_, _)
OverlayAll(grouped, pulled) ==
    IF pulled = <<>> THEN [raised |-> "none", grouped |-> grouped]
    ELSE LET one == Overlay(grouped, Head(pulled))
         IN  IF one.raised # "none" THEN one ELSE OverlayAll(one.grouped, Tail(pulled))

\* a get_alerts_by_fingerprint without the early return of lines 332-333
WithoutEarlyReturn(tenant, provider_alerts, rows) ==
    LET alerts == get_alerts(provider_alerts)
        grouped == GroupedAlerts(alerts)
        fingerprints == {Keys(grouped)[i] : i \in 1..Len(grouped)}
        over == OverlayAll(grouped, get_enrichments(rows, fingerprints))
    IN  IF SortRaises(alerts)
        THEN [raised |-> "TypeError", grouped |-> <<>>, calls |-> <<>>]
        ELSE [raised |-> over.raised,
              grouped |-> IF over.raised = "none" THEN over.grouped ELSE <<>>,
              calls |-> <<[tenant_id |-> tenant, fingerprints |-> fingerprints]>>]

\* get_alerts_by_fingerprint, lines 323-372; calls are the get_enrichments calls made
get_alerts_by_fingerprint(tenant, provider_alerts, rows) ==
    LET alerts == get_alerts(provider_alerts)
        grouped == GroupedAlerts(alerts)
        fingerprints == {Keys(grouped)[i] : i \in 1..Len(grouped)}
        over == OverlayAll(grouped, get_enrichments(rows, fingerprints))
    IN  IF alerts = <<>> THEN [raised |-> "none", grouped |-> <<>>, calls |-> <<>>]
        ELSE IF SortRaises(alerts)
        THEN [raised |-> "TypeError", grouped |-> <<>>, calls |-> <<>>]
        ELSE [raised |-> over.raised,
              grouped |-> IF over.raised = "none" THEN over.grouped ELSE <<>>,
              calls |-> <<[tenant_id |-> tenant, fingerprints |-> fingerprints]>>]

\* the longest fetch when the alerts are enumerated with every lastReceived
MaxAlerts == 3

\* the longest fetch and the most store rows when the rows are enumerated
MaxOverlayAlerts == 2

MaxRecords == 2

f1 == PyStr(<<"f", "1">>)

f2 == PyStr(<<"f", "2">>)

\* a fingerprint no fetched alert has
f3 == PyStr(<<"f", "3">>)

\* what _get_alerts may return: id is the place in the fetch, providerId is not set
AlertsOf(fingerprints, times) ==
    [id : {0}, fingerprint : fingerprints, lastReceived : times, providerId : {"unset"}]

Numbered(alerts) == [i \in 1..Len(alerts) |-> [alerts[i] EXCEPT !.id = i]]

Fetches(fingerprints, times, n) ==
    {Numbered(q) : q \in SeqsUpTo(AlertsOf(fingerprints, times), n)}

\* the enrichments of a store row
EnrichmentsPool ==
    { NoEnrichments,
      "note" :> "v1",
      "note" :> "v2",
      ("note" :> "v2") @@ ("deletedAt" :> <<1>>),
      ("ticket" :> "T1") @@ ("assignees" :> (1 :> "bob")) }

Row(fingerprint, enrichments) ==
    [present |-> TRUE, alert_fingerprint |-> fingerprint, enrichments |-> enrichments]

NullRow == [present |-> FALSE, alert_fingerprint |-> PyNone, enrichments |-> NoEnrichments]

RowPool ==
    {Row(f, m) : f \in {f1, f2}, m \in EnrichmentsPool} \cup {Row(f3, "note" :> "v1"), NullRow}

NoACall == [called |-> FALSE, out |-> [raised |-> "none", grouped |-> <<>>, calls |-> <<>>]]

GetAlertsByFingerprint ==
    /\ acall' = [called |-> TRUE, out |-> get_alerts_by_fingerprint(tenant_id, fetched, records)]
    /\ UNCHANGED <<step, store, ecall, fetched, records, tenant_id, fargs, fcall, payload,
                   endpoint, pcall, posts>>

---------------------------------------------------------------------------
(* The fingerprint engine: get_alert_fingerprint *)

\* the most field names of a fingerprint_fields list
MaxFields == 2

\* ", ".join(parts), and the same for any separator
RECURSIVE Join(_, _)
Join(parts, sep) ==
    IF parts = <<>> THEN <<>>
    ELSE IF Len(parts) = 1 THEN parts[1]
    ELSE parts[1] \o sep \o Join(Tail(parts), sep)

\* json.dumps(v) with the default separators: the keys of a dict in insertion order
\* (sort_keys is not given), strings quoted (the strings here need no escape)
RECURSIVE JsonDumps(_)
JsonDumps(v) ==
    CASE v.t = "none" -> <<"n", "u", "l", "l">>
      [] v.t = "bool" -> IF Truthy(v) THEN <<"t", "r", "u", "e">>
                                      ELSE <<"f", "a", "l", "s", "e">>
      [] v.t = "int" -> v.s
      [] v.t = "str" -> <<"\"">> \o v.s \o <<"\"">>
      [] v.t \in {"list", "tuple"} ->
            <<"[">> \o Join([i \in 1..Len(v.elems) |-> JsonDumps(v.elems[i])], <<",", " ">>)
                    \o <<"]">>
      [] OTHER ->
            <<"{">> \o Join([i \in 1..Len(v.items) |->
                                 <<"\"">> \o v.items[i][1] \o <<"\"", ":", " ">>
                                     \o JsonDumps(v.items[i][2])],
                            <<",", " ">>)
                    \o <<"}">>

\* str(v) of a value that is no list or dict
Str(v) == IF v.t = "none" THEN <<"N", "o", "n", "e">> ELSE v.s

\* event_dict.get(field, None) on alert.dict()
FieldOf(alert, field) == IF field \in DOMAIN alert THEN alert[field] ELSE PyNone

\* lines 279-283: what one field feeds into the digest
FedBy(alert, field) ==
    LET value == FieldOf(alert, field)
        dumped == IF value.t \in {"list", "dict"} THEN PyStr(JsonDumps(value)) ELSE value
    IN  IF Truthy(dumped) THEN Str(dumped) ELSE <<>>

\* lines 278-283: the bytes the digest has been updated with, in order
RECURSIVE Fed(_, _)
Fed(alert, fingerprint_fields) ==
    IF fingerprint_fields = <<>> THEN <<>>
    ELSE FedBy(alert, Head(fingerprint_fields)) \o Fed(alert, Tail(fingerprint_fields))

\* hashlib.sha256(...).hexdigest(): SHA-256 is taken to be free of collisions, so the
\* digest stands for the bytes it was fed
HexDigest(bytes) == PyStr(<<"sha256(">> \o bytes \o <<")">>)

\* get_alert_fingerprint, lines 262-284
get_alert_fingerprint(alert, fingerprint_fields) ==
    IF fingerprint_fields = <<>> THEN alert["name"]
    ELSE HexDigest(Fed(alert, fingerprint_fields))

\* the alerts: a name, a service that may be empty or None, labels that may be the
\* same mapping written in two orders, a list of sources
AlertDtos ==
    [name : {PyStr(<<"n", "1">>), PyStr(<<"n", "2">>)},
     service : {PyStr(<<"s">>), PyStr(<<>>), PyNone},
     labels : {PyDict(<< <<cA, PyStr(<<"1">>)>>, <<cB, PyInt(<<"2">>)>> >>),
               PyDict(<< <<cB, PyInt(<<"2">>)>>, <<cA, PyStr(<<"1">>)>> >>),
               PyDict(<<>>)},
     source : {PyList(<<PyStr(<<"x">>)>>)}]

\* the field names a fingerprint_fields list is made of; "nope" is no field
FieldNames == {"name", "service", "labels", "source", "nope"}

NoFCall == [called |-> FALSE, first |-> PyNone, second |-> PyNone]

GetAlertFingerprint ==
    /\ fcall' = [called |-> TRUE,
                 first |-> get_alert_fingerprint(fargs.first, fargs.fingerprint_fields),
                 second |-> get_alert_fingerprint(fargs.second, fargs.fingerprint_fields)]
    /\ UNCHANGED <<step, store, ecall, fetched, records, tenant_id, acall, fargs, payload,
                   endpoint, pcall, posts>>

---------------------------------------------------------------------------
(* The push path: _push_alert.  The keys of a payload are field names the code     *)
(* only looks up, written as plain strings.                                        *)

\* the calls stop once this many POSTs were made
MaxPosts == 2

\* the JSON texts a payload may be, and one text that is no JSON
jsonObject ==
    <<"{", "\"", "n", "a", "m", "e", "\"", ":", " ", "\"", "c", "p", "u", "\"", "}">>

jsonArray == <<"[", "1", "]">>

jsonNumber == <<"5">>

jsonNull == <<"n", "u", "l", "l">>

notJson == <<"n", "o", "t", " ", "j", "s", "o", "n">>

\* json.loads(text): the value of each of the texts above; any other input (a text
\* that is no JSON, a value that is no str) raises
JsonLoads(v) ==
    IF v.t # "str" THEN [raised |-> "TypeError", v |-> PyNone]
    ELSE CASE v.s = jsonObject ->
                [raised |-> "none", v |-> PyDict(<< <<"name", PyStr(<<"c", "p", "u">>)>> >>)]
           [] v.s = jsonArray -> [raised |-> "none", v |-> PyList(<<PyInt(<<"1">>)>>)]
           [] v.s = jsonNumber -> [raised |-> "none", v |-> PyInt(<<"5">>)]
           [] v.s = jsonNull -> [raised |-> "none", v |-> PyNone]
           [] OTHER -> [raised |-> "JSONDecodeError", v |-> PyNone]

\* lines 495-501: alert_data, or the UnboundLocalError of `alert_data = alert_data`
\* in the except branch, where alert_data was never assigned
AlertData(alert) ==
    IF alert.t = "dict" THEN [raised |-> "none", v |-> alert]
    ELSE IF JsonLoads(alert).raised = "none" THEN JsonLoads(alert)
    ELSE [raised |-> "UnboundLocalError", v |-> PyNone]

\* alert_data.get(key, default)
GetOr(d, key, default) == IF HasKey(d.items, key) THEN Lookup(d.items, key) ELSE default

\* the defaults of lines 514-529
FromQueue == PyStr(<<"alert-from-event-queue">>)

\* str(uuid.uuid4()), one drawn for id and another for event_id
Uuid(field) == PyStr(<<"uuid-for-", field>>)

\* self.provider_type
ProviderType == PyStr(<<"base">>)

\* AlertDto(**fields) of keep.api.models.alert: an Alert with the fields as they
\* are handed in; no validation that rejects a field is described
AlertDto(fields) == fields

\* lines 513-530: the AlertDto built from alert_data
AlertModel(d) ==
    AlertDto(
    [id |-> GetOr(d, "id", Uuid("id")),
     name |-> GetOr(d, "name", FromQueue),
     status |-> GetOr(d, "status", PyStr(<<"firing">>)),
     lastReceived |-> GetOr(d, "lastReceived", PyStr(<<"now">>)),
     environment |-> GetOr(d, "environment", FromQueue),
     isDuplicate |-> GetOr(d, "isDuplicate", PyBool(FALSE)),
     duplicateReason |-> GetOr(d, "duplicateReason", PyNone),
     service |-> GetOr(d, "service", FromQueue),
     source |-> GetOr(d, "source", PyList(<<ProviderType>>)),
     message |-> GetOr(d, "message", FromQueue),
     description |-> GetOr(d, "description", FromQueue),
     severity |-> GetOr(d, "severity", PyStr(<<"info">>)),
     pushed |-> GetOr(d, "pushed", PyBool(FALSE)),
     event_id |-> GetOr(d, "event_id", Uuid("event_id")),
     url |-> GetOr(d, "url", PyNone),
     fingerprint |-> GetOr(d, "fingerprint", PyNone)])

NoAlert == [id |-> PyNone]

\* _push_alert, lines 487-545, against an endpoint that answers "2xx" or "non2xx" or
\* cannot be reached ("network"), or with KEEP_API_URL not set ("unset").
\* built: an AlertDto was constructed; posted: requests.post was called;
\* log: the level of the last log line
_push_alert(alert, answer) ==
    LET data == AlertData(alert)
        none == [raised |-> "none", built |-> FALSE, alert_model |-> NoAlert,
                 posted |-> FALSE, log |-> "none"]
    IN  IF data.raised # "none" THEN [none EXCEPT !.raised = data.raised]
        ELSE IF data.v.t # "dict" THEN [none EXCEPT !.log = "warning"]
        ELSE LET built == [none EXCEPT !.built = TRUE, !.alert_model = AlertModel(data.v)]
             IN  CASE answer = "unset" -> [built EXCEPT !.raised = "KeyError"]
                   [] answer = "network" ->
                         [built EXCEPT !.raised = "ConnectionError", !.posted = TRUE]
                   [] answer = "non2xx" -> [built EXCEPT !.posted = TRUE, !.log = "error"]
                   [] OTHER -> [built EXCEPT !.posted = TRUE, !.log = "info"]

\* what may be handed to _push_alert
PayloadPool ==
    { PyStr(notJson), PyStr(<<>>), PyStr(jsonObject), PyStr(jsonArray), PyStr(jsonNumber),
      PyStr(jsonNull), PyNone, PyInt(<<"5">>), PyList(<<>>),
      PyDict(<<>>),
      PyDict(<< <<"name", PyStr(<<"c", "p", "u">>)>> >>),
      PyDict(<< <<"id", PyStr(<<"i", "1">>)>>, <<"event_id", PyStr(<<"e", "1">>)>> >>),
      PyDict(<< <<"id", PyNone>>, <<"name", PyStr(<<"c", "p", "u">>)>> >>),
      PyDict(<< <<"event_id", PyNone>>, <<"pushed", PyBool(TRUE)>> >>) }

Answers == {"2xx", "non2xx", "network", "unset"}

NoPCall ==
    [called |-> FALSE,
     out |-> [raised |-> "none", built |-> FALSE, alert_model |-> NoAlert, posted |-> FALSE,
              log |-> "none"]]

\* one call of _push_alert with the payload, against the endpoint as it is
PushAlert ==
    LET out == _push_alert(payload, endpoint)
    IN  /\ Len(posts) < MaxPosts
        /\ pcall' = [called |-> TRUE, out |-> out]
        /\ posts' = IF out.posted
                    THEN Append(posts, [json |-> out.alert_model, answer |-> endpoint])
                    ELSE posts
        /\ UNCHANGED <<step, store, ecall, fetched, records, tenant_id, acall, fargs,
                       fcall, payload, endpoint>>

---------------------------------------------------------------------------
(* Initial states and specifications.  A behaviour starts with the inputs of one   *)
(* component drawn from its pools; the other components get no input.              *)

\* nothing has been called and nothing written
Idle ==
    /\ store = <<>>
    /\ ecall = [op \in Ops |-> NoCall]
    /\ acall = NoACall
    /\ fcall = NoFCall
    /\ pcall = NoPCall
    /\ posts = <<>>

NoFArgs == [first |-> [name |-> PyNone], second |-> [name |-> PyNone], fingerprint_fields |-> <<>>]

NoFingerprintInputs == fargs = NoFArgs

NoPushInputs ==
    /\ payload = PyNone
    /\ endpoint = "2xx"

NoStepInput == step = NoStep

NoAlertInputs ==
    /\ fetched = <<>>
    /\ records = <<>>
    /\ tenant_id = "t1"

InitContext ==
    Idle /\ NoAlertInputs /\ NoFingerprintInputs /\ NoPushInputs /\ step \in StepsInContext

InitInstructions ==
    Idle /\ NoAlertInputs /\ NoFingerprintInputs /\ NoPushInputs /\ step \in StepsOfInstructions

NextEnrich == Notify \/ Query

SpecContext == InitContext /\ [][NextEnrich]_vars

SpecInstructions == InitInstructions /\ [][NextEnrich]_vars

\* every fetch order and every lastReceived, with at most one store row
InitGrouping ==
    /\ Idle /\ NoStepInput /\ NoFingerprintInputs /\ NoPushInputs
    /\ fetched \in Fetches({f1, f2, PyNone}, {1, 2, 3}, MaxAlerts)
    /\ records \in SeqsUpTo(RowPool, 1)
    /\ tenant_id \in {"t1", "t2"}

\* every sequence of store rows, over short fetches
InitOverlay ==
    /\ Idle /\ NoStepInput /\ NoFingerprintInputs /\ NoPushInputs
    /\ fetched \in Fetches({f1, f2}, {1, 2}, MaxOverlayAlerts)
    /\ records \in SeqsUpTo(RowPool, MaxRecords)
    /\ tenant_id = "t1"

NextAlerts == GetAlertsByFingerprint

SpecGrouping == InitGrouping /\ [][NextAlerts]_vars

SpecOverlay == InitOverlay /\ [][NextAlerts]_vars

\* every pair of alerts and every field list
InitFingerprint ==
    /\ Idle /\ NoStepInput /\ NoAlertInputs /\ NoPushInputs
    /\ fargs \in [first : AlertDtos, second : AlertDtos,
                  fingerprint_fields : SeqsUpTo(FieldNames, MaxFields)]

NextFingerprint == GetAlertFingerprint

SpecFingerprint == InitFingerprint /\ [][NextFingerprint]_vars

\* every payload, against every endpoint
InitPush ==
    /\ Idle /\ NoStepInput /\ NoAlertInputs /\ NoFingerprintInputs
    /\ payload \in PayloadPool
    /\ endpoint \in Answers

NextPush == PushAlert

SpecPush == InitPush /\ [][NextPush]_vars

\* every component, from the initial states of each
Init == InitContext \/ InitInstructions \/ InitGrouping \/ InitOverlay \/ InitFingerprint \/ InitPush

Next == Notify \/ Query \/ GetAlertsByFingerprint \/ GetAlertFingerprint \/ PushAlert

Spec == Init /\ [][Next]_vars

---------------------------------------------------------------------------
(* Claims about the enrichment write path *)

\* the fingerprint each of the three sources yields, None when it yields none
YieldOf(obj) ==
    IF obj.t \in {"dict", "dto"} /\ HasKey(obj.items, cFingerprint)
          /\ Truthy(Lookup(obj.items, cFingerprint))
    THEN Lookup(obj.items, cFingerprint)
    ELSE PyNone

ForeachItem(foreach_context) ==
    LET item == ForeachValue(foreach_context)
    IN  IF item.t = "tuple" /\ item.elems # <<>> THEN item.elems[1] ELSE item

\* the fingerprints yielded, in the order results, foreach item, event context
Yielded(st) ==
    SelectSeq(<<YieldOf(st.results), YieldOf(ForeachItem(st.foreach_context)),
                YieldOf(st.event_context)>>,
              LAMBDA v : v.t # "none")

\* C2: an enrichment attempt on mapping results fails with the missing-fingerprint
\* error, writing nothing, exactly when none of results, foreach item and event
\* context yields a fingerprint; otherwise the first that yields one gives the
\* fingerprint of the store write.
C2_FirstYieldingSourceWins ==
    \A op \in Ops :
        (ecall[op].called /\ ecall[op].out.attempted /\ step.results.t = "dict") =>
            /\ (ecall[op].out.raised = "NoFingerprint") <=> (Yielded(step) = <<>>)
            /\ (Yielded(step) = <<>>) => ~ecall[op].out.wrote
            /\ (Yielded(step) # <<>> /\ step.storeOk) =>
                  /\ ecall[op].out.wrote
                  /\ ecall[op].out.fingerprint = Yielded(step)[1]

\* C6: once notify and query have both run in the same step (same enrich_alert
\* list, same results, same context), they have both attempted enrichment or
\* neither has, with the same outcome and the same returned value.
C6_NotifyLikeQuery ==
    (ecall["notify"].called /\ ecall["query"].called) =>
        ecall["notify"].out = ecall["query"].out

\* the path of a "results." instruction: the dot-separated remainder after the prefix
RemainderPath(value) == Split(SubSeq(value, Len(cResultsDot) + 1, Len(value)), ".")

IsPath(enrichment) ==
    enrichment.value.t = "str" /\ StartsWith(enrichment.value.s, cResultsDot)

\* a "results." instruction whose path does not resolve in the results
FailsToResolve(enrichment, results) ==
    IsPath(enrichment) /\ Walk(results, RemainderPath(enrichment.value.s)).raised # "none"

\* the instructions left when those whose path fails to resolve are taken out
WithoutFailing(enrichments, results) ==
    SelectSeq(enrichments, LAMBDA e : ~FailsToResolve(e, results))

\* C8: the mapping written is the one the list gives with its failing "results."
\* instructions absent: a failing instruction binds nothing and changes no other
\* binding, and the mapping is written all the same.
C8_BadInstructionSkipped ==
    \A op \in Ops :
        (ecall[op].called /\ ecall[op].out.attempted /\ ecall[op].out.raised = "none") =>
            /\ ecall[op].out.wrote
            /\ ecall[op].out.enrichments =
                   EnrichAll(NoEnrichments, WithoutFailing(step.enrich_alert, step.results),
                             step.results)

\* the instruction at i is the last of the list for its key
LastForKey(enrichments, i) ==
    \A j \in (i + 1)..Len(enrichments) : enrichments[j].key # enrichments[i].key

\* C9: a "results." instruction binds its key to the value reached by walking the
\* dot-separated remainder after the leading prefix, every segment a lookup step;
\* an instruction without the prefix binds its key to the value string itself.
C9_PathIsRemainder ==
    \A op \in Ops :
        (ecall[op].called /\ ecall[op].out.wrote) =>
            \A i \in 1..Len(step.enrich_alert) :
                LET e == step.enrich_alert[i]
                    w == Walk(step.results, RemainderPath(e.value.s))
                IN  (e.value.t = "str" /\ LastForKey(step.enrich_alert, i)) =>
                       /\ (IsPath(e) /\ w.raised = "none") =>
                             /\ e.key \in DOMAIN ecall[op].out.enrichments
                             /\ ecall[op].out.enrichments[e.key] = w.v
                       /\ ~IsPath(e) =>
                             /\ e.key \in DOMAIN ecall[op].out.enrichments
                             /\ ecall[op].out.enrichments[e.key] = e.value

---------------------------------------------------------------------------
(* Claims about the read path *)

Returned == acall.called /\ acall.out.raised = "none"

Groups == acall.out.grouped

\* the lastReceived of the alerts of a group, in the group's order
TimesOf(group) == [i \in 1..Len(group) |-> group[i].lastReceived]

Ascending(q) == \A i \in 1..(Len(q) - 1) : q[i] <= q[i + 1]

Descending(q) == \A i \in 1..(Len(q) - 1) : q[i] >= q[i + 1]

\* C4: when get_alerts_by_fingerprint returns, the alerts of every group are in
\* the order of their lastReceived (oldest first or newest first).
C4_GroupsOrderedByLastReceived ==
    Returned =>
        \A g \in 1..Len(Groups) :
            Ascending(TimesOf(Groups[g][2])) \/ Descending(TimesOf(Groups[g][2]))

AllCarryFingerprint == \A i \in 1..Len(fetched) : fetched[i].fingerprint.t = "str"

\* the places <<g, j>> of the returned mapping that hold the fetched alert i
PlacesOf(i) ==
    {<<g, j>> \in (1..Len(Groups)) \X (1..Len(fetched)) :
        j <= Len(Groups[g][2]) /\ Groups[g][2][j].id = i}

FetchedAttributes == {"id", "fingerprint", "lastReceived", "providerId"}

\* the attributes parse_and_enrich_deleted_and_assignees derives
DerivedAttributes == {"deleted", "assignee"}

\* the records the store returned for a fingerprint, in the returned order
RecordsOf(fingerprint) ==
    SelectSeq(records, LAMBDA r : r.present /\ r.alert_fingerprint = fingerprint)

\* the places of the records of the list that set the key
Setting(recs, k) == {n \in 1..Len(recs) : k \in DOMAIN recs[n].enrichments}

Max(S) == CHOOSE x \in S : \A y \in S : y <= x

\* C10: after the call every alert of a group has every enrichment key of every
\* record of its fingerprint as a field, with the value of the last record (in the
\* store's returned order) that sets the key; the alerts of a group without a
\* record have no enrichment field.
C10_LastRecordWins ==
    Returned =>
        \A g \in 1..Len(Groups) :
            \A j \in 1..Len(Groups[g][2]) :
                LET alert == Groups[g][2][j]
                    recs == RecordsOf(Groups[g][1])
                IN  /\ \A n \in 1..Len(recs) :
                          \A k \in DOMAIN recs[n].enrichments :
                              /\ k \in DOMAIN alert
                              /\ alert[k] = recs[Max(Setting(recs, k))].enrichments[k]
                    /\ recs = <<>> => DOMAIN alert = FetchedAttributes
                    /\ \A k \in DOMAIN alert :
                          k \in FetchedAttributes \cup DerivedAttributes
                              \/ Setting(recs, k) # {}

\* C10's case: a group of two alerts, two records of its fingerprint that set "note"
\* to different values, and both alerts end with the later value
C10_Witness ==
    /\ Returned
    /\ HasKey(Groups, f1)
    /\ Len(Lookup(Groups, f1)) = 2
    /\ Len(RecordsOf(f1)) = 2
    /\ RecordsOf(f1)[1].enrichments = ("note" :> "v2") @@ ("deletedAt" :> <<1>>)
    /\ RecordsOf(f1)[2].enrichments = "note" :> "v1"
    /\ \A j \in 1..2 : Lookup(Groups, f1)[j]["note"] = "v1"

\* the get_enrichments calls of the invocation
StoreCalls == acall.out.calls

\* the distinct fingerprints of the fetched alerts
FingerprintsPresent == {fetched[i].fingerprint : i \in 1..Len(fetched)}

\* the call asks for the fingerprints present, for the caller's tenant
AsksForTheFetch(call) ==
    /\ call.tenant_id = tenant_id
    /\ call.fingerprints = FingerprintsPresent

\* C11 as the spec states it: with no alert fetched get_alerts_by_fingerprint
\* returns an empty mapping and never calls get_enrichments; with at least one
\* alert fetched, whatever the alerts hold, it calls get_enrichments exactly once,
\* with the distinct fingerprints present and the caller's tenant id.
C11_OneStoreCallPerFetch ==
    acall.called =>
        /\ fetched = <<>> =>
              /\ acall.out.raised = "none"
              /\ Groups = <<>>
              /\ StoreCalls = <<>>
        /\ fetched # <<>> =>
              /\ Len(StoreCalls) = 1
              /\ AsksForTheFetch(StoreCalls[1])

\* C11, amended: the same, for the fetches whose alerts all carry a fingerprint
\* (a fetch of two or more alerts with a None fingerprint among them fails in the
\* sort, before the store is asked).
C11_OneStoreCallWhenFingerprinted ==
    (acall.called /\ AllCarryFingerprint) =>
        /\ fetched = <<>> =>
              /\ acall.out.raised = "none"
              /\ Groups = <<>>
              /\ StoreCalls = <<>>
        /\ fetched # <<>> =>
              /\ Len(StoreCalls) = 1
              /\ AsksForTheFetch(StoreCalls[1])

\* C11's case: three alerts of two fingerprints fetched for tenant t2, and the one
\* call asks for both fingerprints
C11_Witness ==
    /\ acall.called
    /\ tenant_id = "t2"
    /\ Len(fetched) = 3
    /\ FingerprintsPresent = {f1, f2}
    /\ StoreCalls = <<[tenant_id |-> "t2", fingerprints |-> {f1, f2}]>>

---------------------------------------------------------------------------
(* Claims about the fingerprint engine *)

\* the two alerts have equal values (Python ==) on every field of the list
AgreeOn(fingerprint_fields) ==
    \A i \in 1..Len(fingerprint_fields) :
        PyEq(FieldOf(fargs.first, fingerprint_fields[i]),
             FieldOf(fargs.second, fingerprint_fields[i]))

\* C7: two alerts with equal values on all the fields of a field list get the same
\* fingerprint, whatever their other fields hold.  Stated for the non-empty field
\* lists, where the digest decides; with an empty list the function returns
\* alert.name, as its docstring says.
C7_SameFieldsSameFingerprint ==
    (fcall.called /\ fargs.fingerprint_fields # <<>> /\ AgreeOn(fargs.fingerprint_fields)) =>
        fcall.first = fcall.second

---------------------------------------------------------------------------
(* Claims about the push path *)

\* the payload is no mapping and no JSON text
Unparseable(v) == v.t # "dict" /\ JsonLoads(v).raised # "none"

\* C1: for a payload that is no mapping and does not parse as JSON, _push_alert
\* returns normally: it raises nothing, builds no Alert and makes no POST.
C1_UnparseableDropped ==
    (pcall.called /\ Unparseable(payload)) =>
        /\ pcall.out.raised = "none"
        /\ ~pcall.out.built
        /\ ~pcall.out.posted
        /\ posts = <<>>

\* C3: for a mapping payload, _push_alert returns without raising when the delivery
\* fails, by a non-2xx answer or by a network error alike, after exactly one POST.
C3_DeliveryFailureNotRaised ==
    (pcall.called /\ payload.t = "dict" /\ endpoint \in {"non2xx", "network"}) =>
        /\ pcall.out.raised = "none"
        /\ pcall.out.posted
        /\ pcall.out.log = "error"

\* the mapping the Alert is built from: the payload, or what it parses to
MappingOf(v) == AlertData(v).v

\* the Alert carries the field, and freshly generated when the mapping has no such key
CarriesIdentity(alert_model, d, field) ==
    /\ alert_model[field].t # "none"
    /\ ~HasKey(d.items, field) => alert_model[field] = Uuid(field)

\* C12: every Alert that _push_alert builds and hands to the POST has a non-null id
\* and a non-null event_id, whatever the mapping it is built from holds; a field the
\* mapping omits is freshly generated.
C12_AlertCarriesIdAndEventId ==
    (pcall.called /\ pcall.out.built /\ pcall.out.posted) =>
        /\ CarriesIdentity(pcall.out.alert_model, MappingOf(payload), "id")
        /\ CarriesIdentity(pcall.out.alert_model, MappingOf(payload), "event_id")
        /\ \A n \in 1..Len(posts) :
              posts[n].json.id.t # "none" /\ posts[n].json.event_id.t # "none"

====
